---- MODULE Spec2Model ----
(***************************************************************************)
(* GitHub -> Notion issue synchronizers: the repository sweep              *)
(* (issue-import/notion_sync.py) and the single-issue tool                 *)
(* (issue-import/issue_to_notion.py).                                      *)
(*                                                                         *)
(* A Python string is a sequence of one-character strings, so that         *)
(* strip, lower, startswith, split and join are computed, not assumed.     *)
(* A JSON field of a GitHub record is a record [tag, s]: tag "missing"     *)
(* (key absent), "null" (key present, value null) or "str" (the string s). *)
(* A Notion property value is a record [kind, s, l, n]; kind "absent"      *)
(* stands for "the key is not in the dict".                                *)
(***************************************************************************)
EXTENDS Integers, Sequences, FiniteSets, TLC

VARIABLES
    DB_SCHEMA,          \* notion_sync.py:96   property name -> kind ("absent": not in the schema), as the database reports it
    NOTION_PEOPLE_MAP,  \* notion_sync.py:50   sequence of <<login, value>>
    PROJECT_MAP,        \* notion_sync.py:55   sequence of <<repo short name, project>> (dict order)
    DRY_RUN,            \* notion_sync.py:40   read from the environment by each run
    source,             \* the GitHub listing of the repository, in listing order
    db,                 \* the Notion database: sequence of pages [id, props]
    pc,                 \* "idle" | "run"
    batch,              \* sync_repo's `issues`: the snapshot gh_get_issues returned
    idx,                \* position of the for loop in batch
    last,               \* what the last loop iteration did (decision, request sent, payload)
    clean,              \* the current run has had no failure so far
    synced,             \* the previous run was a real one without failure, and the source is unchanged since
    edits,              \* number of source edits so far
    runs,               \* number of runs started so far
    ev,                 \* the single-issue tool's run: inputs, stage and results
    boot,               \* how the last program start went: settings, schema fetch
    imp                 \* github_issue_importer.py: the target repository, the input, the loop

vars == <<DB_SCHEMA, NOTION_PEOPLE_MAP, PROJECT_MAP, DRY_RUN, source, db, pc,
          batch, idx, last, clean, synced, edits, runs, ev, boot, imp>>

-----------------------------------------------------------------------------
(* Python str methods *)

UpperChars == <<"A","B","C","D","E","F","G","H","I","J","K","L","M",
                "N","O","P","Q","R","S","T","U","V","W","X","Y","Z">>
LowerChars == <<"a","b","c","d","e","f","g","h","i","j","k","l","m",
                "n","o","p","q","r","s","t","u","v","w","x","y","z">>

lower_char(c) ==
    IF \E i \in 1..Len(UpperChars) : UpperChars[i] = c
    THEN LowerChars[CHOOSE i \in 1..Len(UpperChars) : UpperChars[i] = c]
    ELSE c

RECURSIVE lower(_)
lower(s) == IF s = <<>> THEN <<>> ELSE <<lower_char(Head(s))>> \o lower(Tail(s))

startswith(s, p) == Len(s) >= Len(p) /\ SubSeq(s, 1, Len(p)) = p

IsSpace(c) == c \in {" ", "\n", "\t"}

RECURSIVE lstrip(_)
lstrip(s) == IF s # <<>> /\ IsSpace(Head(s)) THEN lstrip(Tail(s)) ELSE s

RECURSIVE rstrip(_)
rstrip(s) == IF s # <<>> /\ IsSpace(s[Len(s)]) THEN rstrip(SubSeq(s, 1, Len(s) - 1)) ELSE s

strip(s) == rstrip(lstrip(s))

\* c in s
contains(s, c) == \E i \in 1..Len(s) : s[i] = c

\* s.split(c, 1) for an s that contains c: <<before, after>>
split1(s, c) ==
    LET i == CHOOSE k \in 1..Len(s) : s[k] = c /\ \A j \in 1..(k - 1) : s[j] # c
    IN  <<SubSeq(s, 1, i - 1), SubSeq(s, i + 1, Len(s))>>

\* s.split(c): the parts between the occurrences of c
RECURSIVE split(_, _)
split(s, c) ==
    IF ~contains(s, c) THEN <<s>>
    ELSE <<split1(s, c)[1]>> \o split(split1(s, c)[2], c)

\* s.rstrip(c) for a one-character c
RECURSIVE rstrip_char(_, _)
rstrip_char(s, c) ==
    IF s # <<>> /\ s[Len(s)] = c THEN rstrip_char(SubSeq(s, 1, Len(s) - 1), c) ELSE s

\* sep.join(parts)
RECURSIVE join(_, _)
join(parts, sep) ==
    IF parts = <<>> THEN <<>>
    ELSE IF Len(parts) = 1 THEN parts[1]
    ELSE parts[1] \o sep \o join(Tail(parts), sep)

\* s[:n]
prefix(s, n) == SubSeq(s, 1, IF Len(s) < n THEN Len(s) ELSE n)

-----------------------------------------------------------------------------
(* JSON fields of a GitHub record *)

Missing == [tag |-> "missing", s |-> <<>>]
Null    == [tag |-> "null", s |-> <<>>]
Str(s)  == [tag |-> "str", s |-> s]

\* d.get(key): None unless the key holds a string
IsNone(j) == j.tag # "str"
\* Python truthiness of d.get(key)
Truthy(j) == j.tag = "str" /\ j.s # <<>>

-----------------------------------------------------------------------------
(* Notion DB property names *)

PROP_TITLE     == "Task"
PROP_GH_ID     == "GitHub ID"
PROP_REPO      == "Repo"
PROP_PROJECT   == "Project"
PROP_TYPE      == "Type"
PROP_PRIORITY  == "Priority"
PROP_SPRINT    == "Sprint"
PROP_LABELS    == "Labels"
PROP_STATUS    == "Status"
PROP_ASSIGNEE  == "Assigned To"
PROP_BODY      == "Notes"
PROP_ISSUE_URL == "GitHub Link"
PROP_CREATED   == "Created At"
PROP_UPDATED   == "Updated At"

PropNames == {PROP_TITLE, PROP_GH_ID, PROP_REPO, PROP_PROJECT, PROP_TYPE,
              PROP_PRIORITY, PROP_SPRINT, PROP_LABELS, PROP_STATUS, PROP_ASSIGNEE,
              PROP_BODY, PROP_ISSUE_URL, PROP_CREATED, PROP_UPDATED}

(* Notion property values: {"select": {"name": s}}, {"multi_select": [{"name": x}...]},
   {"rich_text": [{"text": {"content": s}}]}, {"title": [...]}, {"number": n},
   {"url": u}, {"date": {"start": s}}, {"people": [{"id": x}...]} *)
PV(kind, s, l, n) == [kind |-> kind, s |-> s, l |-> l, n |-> n]
Absent        == PV("absent", <<>>, <<>>, 0)
Select(v)     == PV("select", v, <<>>, 0)
MultiSel(vs)  == PV("multi_select", <<>>, vs, 0)
RichText(v)   == PV("rich_text", v, <<>>, 0)
TitleVal(v)   == PV("title", v, <<>>, 0)
Number(n)     == PV("number", <<>>, <<>>, n)
\* url: l is <<>> for null, <<u>> for the string u
Url(j)        == PV("url", <<>>, IF j.tag = "str" THEN <<j.s>> ELSE <<>>, 0)
Date(v)       == PV("date", v, <<>>, 0)
People(ids)   == PV("people", <<>>, ids, 0)

EmptyProps == [p \in PropNames |-> Absent]

\* props.update(d): the keys of d replace those of props
Update(props, d) == [p \in PropNames |-> IF d[p].kind # "absent" THEN d[p] ELSE props[p]]

Single(prop_name, v) == [EmptyProps EXCEPT ![prop_name] = v]

-----------------------------------------------------------------------------
(* payload builders *)

\* slip: the value is always sent as a select
select_payload_always_select(prop_name, value) == Single(prop_name, Select(value))

select_payload(prop_name, value) ==
    LET t == DB_SCHEMA[prop_name]
    IN  IF t = "select" THEN Single(prop_name, Select(value))
        ELSE IF t = "multi_select" THEN Single(prop_name, MultiSel(<<value>>))
        ELSE Single(prop_name, RichText(value))

\* slip: an empty list gives None
multi_select_payload_omit_empty(prop_name, values) ==
    IF values # <<>> /\ DB_SCHEMA[prop_name] = "multi_select"
    THEN Single(prop_name, MultiSel(values)) ELSE EmptyProps

\* None is EmptyProps: `if lbl_payload:` then adds nothing
multi_select_payload(prop_name, values) ==
    LET t == DB_SCHEMA[prop_name]
    IN  IF values = <<>>
        THEN IF t = "multi_select" THEN Single(prop_name, MultiSel(<<>>)) ELSE EmptyProps
        ELSE IF t = "multi_select" THEN Single(prop_name, MultiSel(values))
        ELSE EmptyProps

\* NOTION_PEOPLE_MAP: dict lookups; a value is Null (JSON null) or Str(id)
people_has(login) == \E i \in 1..Len(NOTION_PEOPLE_MAP) : NOTION_PEOPLE_MAP[i][1] = login

people_get(login) ==
    IF people_has(login)
    THEN NOTION_PEOPLE_MAP[CHOOSE i \in 1..Len(NOTION_PEOPLE_MAP) :
                             /\ NOTION_PEOPLE_MAP[i][1] = login
                             /\ \A j \in (i + 1)..Len(NOTION_PEOPLE_MAP) :
                                    NOTION_PEOPLE_MAP[j][1] # login][2]
    ELSE Missing

\* gh_login is a JSON field: None unless a string
people_payload(prop_name, gh_login) ==
    LET t == DB_SCHEMA[prop_name]
    IN  IF t = "people"
        THEN IF Truthy(gh_login) /\ Truthy(people_get(gh_login.s))
             THEN Single(prop_name, People(<<people_get(gh_login.s).s>>))
             ELSE Single(prop_name, People(<<>>))
        ELSE Single(prop_name, RichText(IF Truthy(gh_login) THEN gh_login.s ELSE <<>>))

i2n_people_payload(prop_name, gh_login) ==
    LET t == DB_SCHEMA[prop_name]
    IN  IF t = "people"
        THEN IF Truthy(gh_login) /\ people_has(gh_login.s)
             THEN Single(prop_name, People(<<people_get(gh_login.s).s>>))
             ELSE Single(prop_name, People(<<>>))
        ELSE Single(prop_name, RichText(IF Truthy(gh_login) THEN gh_login.s ELSE <<>>))

-----------------------------------------------------------------------------
(* string literals of the source *)

S_All       == <<"A","l","l">>
S_unknown   == <<"u","n","k","n","o","w","n">>
S_slash     == <<"/">>
S_Done      == <<"D","o","n","e">>
S_Backlog   == <<"B","a","c","k","l","o","g">>
S_closed    == <<"c","l","o","s","e","d">>
S_open      == <<"o","p","e","n">>
S_type      == <<"t","y","p","e">>
S_priority  == <<"p","r","i","o","r","i","t","y">>
S_sprint_   == <<"s","p","r","i","n","t",":">>
S_Sprint_   == <<"S","p","r","i","n","t"," ">>
S_Labels_   == <<"\n","\n","L","a","b","e","l","s",":"," ">>
S_comma_    == <<","," ">>
S_Assignee_ == <<"\n","\n","G","i","t","H","u","b"," ","a","s","s","i","g","n","e","e",":"," ">>

\* title = issue.get("title","")[:200]
TitleMax == 200

-----------------------------------------------------------------------------
(* label and repository helpers *)

\* parse_label_map: a function from the lowered keys to values; a later label
\* with the same key overwrites (m[k.lower()] = v is unconditional)
RECURSIVE parse_label_map_from(_, _)
parse_label_map_from(labels, m) ==
    IF labels = <<>> THEN m
    ELSE LET l == Head(labels)
         IN  IF contains(l, ":")
             THEN LET k == lower(split1(l, ":")[1])
                      v == split1(l, ":")[2]
                  IN  parse_label_map_from(Tail(labels),
                          [x \in (DOMAIN m) \cup {k} |-> IF x = k THEN v ELSE m[x]])
             ELSE parse_label_map_from(Tail(labels), m)

\* slip: the key is taken as written, m[k] = v
RECURSIVE parse_label_map_exact_from(_, _)
parse_label_map_exact_from(labels, m) ==
    IF labels = <<>> THEN m
    ELSE LET l == Head(labels)
         IN  IF contains(l, ":")
             THEN LET k == split1(l, ":")[1]
                      v == split1(l, ":")[2]
                  IN  parse_label_map_exact_from(Tail(labels),
                          [x \in (DOMAIN m) \cup {k} |-> IF x = k THEN v ELSE m[x]])
             ELSE parse_label_map_exact_from(Tail(labels), m)

parse_label_map_exact(labels) == parse_label_map_exact_from(labels, [x \in {} |-> <<>>])

parse_label_map(labels) == parse_label_map_from(labels, [x \in {} |-> <<>>])

\* short = repo_full.split("/",1)[1] if "/" in repo_full else repo_full
short_of(repo_full) ==
    IF contains(repo_full, "/") THEN split1(repo_full, "/")[2] ELSE repo_full

resolve_project_name_from_repo(repo_full) ==
    LET short == short_of(repo_full)
        exact == {i \in 1..Len(PROJECT_MAP) : PROJECT_MAP[i][1] = short}
        nocase == {i \in 1..Len(PROJECT_MAP) : lower(PROJECT_MAP[i][1]) = lower(short)}
        first(S) == CHOOSE i \in S : \A j \in S : i <= j
    IN  IF exact # {} THEN PROJECT_MAP[first(exact)][2]
        ELSE IF nocase # {} THEN PROJECT_MAP[first(nocase)][2]
        ELSE S_All

\* issue_to_notion.py's copy of the same function
resolve_project(repo_full) ==
    LET short == short_of(repo_full)
        exact == {i \in 1..Len(PROJECT_MAP) : PROJECT_MAP[i][1] = short}
        nocase == {i \in 1..Len(PROJECT_MAP) : lower(PROJECT_MAP[i][1]) = lower(short)}
        first(S) == CHOOSE i \in S : \A j \in S : i <= j
    IN  IF exact # {} THEN PROJECT_MAP[first(exact)][2]
        ELSE IF nocase # {} THEN PROJECT_MAP[first(nocase)][2]
        ELSE S_All

\* A milestone is [present, title]: present is FALSE for null / no milestone.
NoMilestone == [present |-> FALSE, title |-> Missing]
Milestone(j) == [present |-> TRUE, title |-> j]

\* The optional result (None or a string) is a JSON field.
sprint_label_value(l) == strip(split1(l, ":")[2])

\* slip: the last "sprint:" label decides
RECURSIVE sprint_from_labels_last(_)
sprint_from_labels_last(labels) ==
    IF labels = <<>> THEN Null
    ELSE IF sprint_from_labels_last(Tail(labels)).tag = "str"
         THEN sprint_from_labels_last(Tail(labels))
         ELSE IF startswith(lower(Head(labels)), S_sprint_)
                   /\ sprint_label_value(Head(labels)) # <<>>
              THEN Str(S_Sprint_ \o sprint_label_value(Head(labels)))
              ELSE Null

RECURSIVE sprint_from_labels(_)
sprint_from_labels(labels) ==
    IF labels = <<>> THEN Null
    ELSE IF startswith(lower(Head(labels)), S_sprint_)
              /\ sprint_label_value(Head(labels)) # <<>>
         THEN Str(S_Sprint_ \o sprint_label_value(Head(labels)))
         ELSE sprint_from_labels(Tail(labels))

resolve_sprint_from_issue(labels, milestone) ==
    IF sprint_from_labels(labels).tag = "str" THEN sprint_from_labels(labels)
    ELSE IF milestone.present /\ Truthy(milestone.title)
              /\ strip(milestone.title.s) # <<>>
         THEN Str(strip(milestone.title.s))
         ELSE Null

\* issue_to_notion.py:158-162: the first "sprint:" label decides, whatever its value
RECURSIVE i2n_sprint_from_labels(_)
i2n_sprint_from_labels(labels) ==
    IF labels = <<>> THEN Null
    ELSE IF startswith(lower(Head(labels)), S_sprint_)
         THEN Str(S_Sprint_ \o sprint_label_value(Head(labels)))
         ELSE i2n_sprint_from_labels(Tail(labels))

\* issue_to_notion.py:163-166; issue["milestone"].get("title","").strip()
\* raises for a null title
i2n_milestone_raises(milestone) == milestone.present /\ milestone.title.tag = "null"

i2n_sprint_val(labels, milestone) ==
    IF i2n_sprint_from_labels(labels).tag = "str" THEN i2n_sprint_from_labels(labels)
    ELSE IF milestone.present /\ milestone.title.tag = "str"
              /\ strip(milestone.title.s) # <<>>
         THEN Str(strip(milestone.title.s))
         ELSE Null

-----------------------------------------------------------------------------
(* build_properties *)

(* A GitHub issue record: id (0: no id), title, body, state, created_at,
   updated_at, html_url, repository_url, assignee (the assignee's login) are
   JSON fields; labels is the list of the labels' names (JSON fields);
   pull_request says whether the record carries a "pull_request" key. *)

\* labels = [l.get("name") for l in issue.get("labels",[])]
label_names(issue) == [i \in 1..Len(issue.labels) |-> issue.labels[i].s]

\* ":" in l, l.lower(): a label without a name is None and raises TypeError
labels_raise(issue) == \E i \in 1..Len(issue.labels) : IsNone(issue.labels[i])

\* notion_sync.py:194-200
repo_full_of(issue) ==
    LET repo_text == issue.repository_url
        parts == split(rstrip_char(repo_text.s, "/"), "/")
    IN  IF Truthy(repo_text) /\ Len(parts) >= 2
        THEN parts[Len(parts) - 1] \o S_slash \o parts[Len(parts)]
        ELSE S_unknown \o S_slash \o S_unknown

\* slip: the Labels line replaces the Notes content
notes_value_overwrite(body, labels, unresolved, gh_assignee) ==
    LET withLabels ==
            IF DB_SCHEMA[PROP_LABELS] # "multi_select" /\ labels # <<>>
            THEN S_Labels_ \o join(labels, S_comma_)
            ELSE body
    IN  IF DB_SCHEMA[PROP_ASSIGNEE] = "people" /\ Truthy(gh_assignee) /\ unresolved
        THEN withLabels \o S_Assignee_ \o gh_assignee.s
        ELSE withLabels

\* the Notes appends of both variants (notion_sync.py:239-244)
notes_value(body, labels, unresolved, gh_assignee) ==
    LET withLabels ==
            IF DB_SCHEMA[PROP_LABELS] # "multi_select" /\ labels # <<>>
            THEN body \o S_Labels_ \o join(labels, S_comma_)
            ELSE body
    IN  IF DB_SCHEMA[PROP_ASSIGNEE] = "people" /\ Truthy(gh_assignee) /\ unresolved
        THEN withLabels \o S_Assignee_ \o gh_assignee.s
        ELSE withLabels

\* The payload, for an issue on which build_properties does not raise: each
\* key with the value the function leaves in props (Notes after the appends).
build_props(issue) ==
    LET gh_id       == issue.id
        short_repo  == short_of(repo_full_of(issue))
        title       == prefix(issue.title.s, TitleMax)
        body        == IF Truthy(issue.body) THEN issue.body.s ELSE <<>>
        labels      == label_names(issue)
        label_map   == parse_label_map(labels)
        gh_assignee == issue.assignee
        created     == issue.created_at
        updated     == issue.updated_at
        status_val  == IF issue.state = Str(S_closed) THEN S_Done ELSE S_Backlog
        sprint_val  == resolve_sprint_from_issue(labels, issue.milestone)
    IN  [p \in PropNames |->
          CASE p = PROP_TITLE     -> TitleVal(title)
            [] p = PROP_GH_ID     -> Number(gh_id)
            [] p = PROP_REPO      -> select_payload(PROP_REPO, short_repo)[p]
            [] p = PROP_PROJECT   -> select_payload(PROP_PROJECT, resolve_project_name_from_repo(short_repo))[p]
            [] p = PROP_ISSUE_URL -> Url(issue.html_url)
            [] p = PROP_STATUS    -> select_payload(PROP_STATUS, status_val)[p]
            [] p = PROP_LABELS    -> multi_select_payload(PROP_LABELS, labels)[p]
            [] p = PROP_TYPE      -> IF S_type \in DOMAIN label_map
                                     THEN select_payload(PROP_TYPE, label_map[S_type])[p]
                                     ELSE Absent
            [] p = PROP_PRIORITY  -> IF S_priority \in DOMAIN label_map
                                     THEN select_payload(PROP_PRIORITY, label_map[S_priority])[p]
                                     ELSE Absent
            [] p = PROP_SPRINT    -> IF Truthy(sprint_val)
                                     THEN select_payload(PROP_SPRINT, sprint_val.s)[p]
                                     ELSE Absent
            [] p = PROP_ASSIGNEE  -> people_payload(PROP_ASSIGNEE, gh_assignee)[p]
            [] p = PROP_BODY      -> RichText(notes_value(body, labels, IsNone(people_get(gh_assignee.s)), gh_assignee))
            [] p = PROP_CREATED   -> IF Truthy(created) THEN Date(created.s) ELSE Absent
            [] p = PROP_UPDATED   -> IF Truthy(updated) THEN Date(updated.s) ELSE Absent]

\* issue.get("title","")[:200] raises for a null title, parse_label_map for a
\* label without a name
build_raises(issue) == issue.title.tag = "null" \/ labels_raise(issue)

build_properties(issue) ==
    IF build_raises(issue)
    THEN [raised |-> TRUE, props |-> EmptyProps]
    ELSE [raised |-> FALSE, props |-> build_props(issue)]

\* issue_to_notion.py: the repository name is the --repo argument
i2n_build_props(issue, repo_full) ==
    LET gh_id       == issue.id
        short_repo  == short_of(repo_full)
        title       == prefix(issue.title.s, TitleMax)
        body        == IF Truthy(issue.body) THEN issue.body.s ELSE <<>>
        labels      == label_names(issue)
        label_map   == parse_label_map(labels)
        gh_assignee == issue.assignee
        created     == issue.created_at
        updated     == issue.updated_at
        status_val  == IF issue.state = Str(S_closed) THEN S_Done ELSE S_Backlog
        sprint_val  == i2n_sprint_val(labels, issue.milestone)
    IN  [p \in PropNames |->
          CASE p = PROP_TITLE     -> TitleVal(title)
            [] p = PROP_GH_ID     -> Number(gh_id)
            [] p = PROP_REPO      -> select_payload(PROP_REPO, short_repo)[p]
            [] p = PROP_PROJECT   -> select_payload(PROP_PROJECT, resolve_project(short_repo))[p]
            [] p = PROP_ISSUE_URL -> Url(issue.html_url)
            [] p = PROP_STATUS    -> select_payload(PROP_STATUS, status_val)[p]
            [] p = PROP_LABELS    -> multi_select_payload(PROP_LABELS, labels)[p]
            [] p = PROP_TYPE      -> IF S_type \in DOMAIN label_map
                                     THEN select_payload(PROP_TYPE, label_map[S_type])[p]
                                     ELSE Absent
            [] p = PROP_PRIORITY  -> IF S_priority \in DOMAIN label_map
                                     THEN select_payload(PROP_PRIORITY, label_map[S_priority])[p]
                                     ELSE Absent
            [] p = PROP_SPRINT    -> IF Truthy(sprint_val)
                                     THEN select_payload(PROP_SPRINT, sprint_val.s)[p]
                                     ELSE Absent
            [] p = PROP_ASSIGNEE  -> i2n_people_payload(PROP_ASSIGNEE, gh_assignee)[p]
            [] p = PROP_BODY      -> RichText(notes_value(body, labels, ~people_has(gh_assignee.s), gh_assignee))
            [] p = PROP_CREATED   -> IF Truthy(created) THEN Date(created.s) ELSE Absent
            [] p = PROP_UPDATED   -> IF Truthy(updated) THEN Date(updated.s) ELSE Absent]

\* the milestone title is read only when no "sprint:" label was found
i2n_build_raises(issue) ==
    \/ issue.title.tag = "null"
    \/ labels_raise(issue)
    \/ /\ i2n_sprint_from_labels(label_names(issue)).tag # "str"
       /\ i2n_milestone_raises(issue.milestone)

i2n_build_properties(issue, repo_full) ==
    IF i2n_build_raises(issue)
    THEN [raised |-> TRUE, props |-> EmptyProps]
    ELSE [raised |-> FALSE, props |-> i2n_build_props(issue, repo_full)]

-----------------------------------------------------------------------------
(* properties_differ *)

(* An existing page, as the query returns it: [id, props_null, props].
   props_null: "properties" is null.  Besides the kinds that are written,
   a property of a page can be malformed: kind "null" (the property's value
   is null) or "select_null" ({"select": null}). *)
NullProp      == PV("null", <<>>, <<>>, 0)
SelectNull    == PV("select_null", <<>>, <<>>, 0)

\* x.get(key, default) on x = props.get(PROP, {}) raises when x is None
read_raises(x) == x.kind = "null"

\* "".join(p.get("text",{}).get("content","") for p in x.get("title",[]))
title_text(x) == IF x.kind = "title" THEN x.s ELSE <<>>
\* the same over x.get("rich_text",[])
rich_text_text(x) == IF x.kind = "rich_text" THEN x.s ELSE <<>>
\* x.get("select",{}).get("name",""): raises when "select" is null
select_raises(x) == read_raises(x) \/ x.kind = "select_null"
select_name(x) == IF x.kind = "select" THEN x.s ELSE <<>>
\* set(m.get("name") for m in x.get("multi_select",[]))
multi_select_names(x) ==
    IF x.kind = "multi_select" THEN {x.l[i] : i \in 1..Len(x.l)} ELSE {}

select_differs(props, new_props, prop) ==
    \/ select_raises(props[prop])
    \/ select_name(props[prop]) # select_name(new_props[prop])

title_differs(props, new_props) ==
    \/ read_raises(props[PROP_TITLE])
    \/ strip(title_text(props[PROP_TITLE])) # strip(title_text(new_props[PROP_TITLE]))

labels_differ(props, new_props) ==
    \/ read_raises(props[PROP_LABELS])
    \/ multi_select_names(props[PROP_LABELS]) # multi_select_names(new_props[PROP_LABELS])

body_differs(props, new_props) ==
    \/ read_raises(props[PROP_BODY])
    \/ strip(rich_text_text(props[PROP_BODY])) # strip(rich_text_text(new_props[PROP_BODY]))

\* status: only update when new status is Done and existing not Done
status_differs(props, new_props) ==
    \/ select_raises(props[PROP_STATUS])
    \/ /\ select_name(new_props[PROP_STATUS]) = S_Done
       /\ select_name(props[PROP_STATUS]) # S_Done

\* slip: `except Exception: return False`
properties_differ_quiet(existing, new_props) ==
    /\ ~existing.props_null
    /\ \A p \in PropNames : existing.props[p].kind \notin {"null", "select_null"}
    /\ \/ title_differs(existing.props, new_props)
       \/ \E prop \in {PROP_PROJECT, PROP_TYPE, PROP_PRIORITY, PROP_SPRINT} :
             DB_SCHEMA[prop] = "select" /\ select_differs(existing.props, new_props, prop)
       \/ DB_SCHEMA[PROP_LABELS] = "multi_select" /\ labels_differ(existing.props, new_props)
       \/ body_differs(existing.props, new_props)
       \/ status_differs(existing.props, new_props)

\* notion_sync.py: the checks in the order of the source; a check that raises
\* ends in `except Exception: return True`, as a difference does
properties_differ(existing, new_props) ==
    \/ existing.props_null
    \/ title_differs(existing.props, new_props)
    \/ DB_SCHEMA[PROP_PROJECT] = "select" /\ select_differs(existing.props, new_props, PROP_PROJECT)
    \/ DB_SCHEMA[PROP_TYPE] = "select" /\ select_differs(existing.props, new_props, PROP_TYPE)
    \/ DB_SCHEMA[PROP_PRIORITY] = "select" /\ select_differs(existing.props, new_props, PROP_PRIORITY)
    \/ DB_SCHEMA[PROP_SPRINT] = "select" /\ select_differs(existing.props, new_props, PROP_SPRINT)
    \/ DB_SCHEMA[PROP_LABELS] = "multi_select" /\ labels_differ(existing.props, new_props)
    \/ body_differs(existing.props, new_props)
    \/ status_differs(existing.props, new_props)

\* issue_to_notion.py: title, status, body, the selects, labels
i2n_properties_differ(existing, new_props) ==
    \/ existing.props_null
    \/ title_differs(existing.props, new_props)
    \/ status_differs(existing.props, new_props)
    \/ body_differs(existing.props, new_props)
    \/ \E prop \in {PROP_PROJECT, PROP_TYPE, PROP_PRIORITY, PROP_SPRINT} :
          DB_SCHEMA[prop] = "select" /\ select_differs(existing.props, new_props, prop)
    \/ DB_SCHEMA[PROP_LABELS] = "multi_select" /\ labels_differ(existing.props, new_props)

-----------------------------------------------------------------------------
(* the update payload *)

SelectProps == {PROP_PROJECT, PROP_TYPE, PROP_PRIORITY, PROP_SPRINT}

\* slip: the status of the source is always written back
update_payload_with_status(new_props) ==
    [p \in PropNames |->
        IF p \in {PROP_TITLE, PROP_BODY, PROP_STATUS} THEN new_props[p]
        ELSE IF p \in SelectProps
             THEN IF new_props[p].kind # "absent" /\ DB_SCHEMA[p] = "select"
                  THEN new_props[p] ELSE Absent
        ELSE IF p = PROP_LABELS
             THEN IF DB_SCHEMA[PROP_LABELS] = "multi_select" /\ new_props[p].kind # "absent"
                  THEN new_props[p] ELSE Absent
        ELSE Absent]

\* slip: the update sends the whole payload
update_payload_full(new_props) == new_props

\* notion_sync.py:327-341
update_payload_of(new_props) ==
    [p \in PropNames |->
        IF p \in {PROP_TITLE, PROP_BODY} THEN new_props[p]
        ELSE IF p \in SelectProps
             THEN IF new_props[p].kind # "absent" /\ DB_SCHEMA[p] = "select"
                  THEN new_props[p] ELSE Absent
        ELSE IF p = PROP_LABELS
             THEN IF DB_SCHEMA[PROP_LABELS] = "multi_select" /\ new_props[p].kind # "absent"
                  THEN new_props[p] ELSE Absent
        ELSE IF p = PROP_STATUS
             THEN IF select_name(new_props[PROP_STATUS]) = S_Done
                  THEN Select(S_Done) ELSE Absent
        ELSE Absent]

\* issue_to_notion.py:236-245
i2n_update_payload_of(new_props) ==
    [p \in PropNames |->
        IF p \in {PROP_TITLE, PROP_BODY} THEN new_props[p]
        ELSE IF p \in SelectProps
             THEN IF new_props[p].kind # "absent" /\ DB_SCHEMA[p] = "select"
                  THEN new_props[p] ELSE Absent
        ELSE IF p = PROP_LABELS
             THEN IF DB_SCHEMA[PROP_LABELS] = "multi_select" /\ new_props[p].kind # "absent"
                  THEN new_props[p] ELSE Absent
        ELSE IF p = PROP_STATUS
             THEN IF select_name(new_props[PROP_STATUS]) = S_Done
                  THEN Select(S_Done) ELSE Absent
        ELSE Absent]

-----------------------------------------------------------------------------
(* the Notion database *)

\* notion_query_by_github_id: the first page whose GitHub ID number equals
\* github_id, or None; found is FALSE for None.  The filter runs in the
\* destination, on the stored number, whatever shape the page is returned in.
matching_pages(github_id) ==
    {i \in 1..Len(db) : /\ db[i].props[PROP_GH_ID].kind = "number"
                         /\ db[i].props[PROP_GH_ID].n = github_id}

NoPage == [id |-> 0, props_null |-> FALSE, props |-> EmptyProps]

notion_query_by_github_id(github_id) ==
    IF matching_pages(github_id) = {}
    THEN [found |-> FALSE, page |-> NoPage]
    ELSE [found |-> TRUE,
          page |-> db[CHOOSE i \in matching_pages(github_id) :
                         \A j \in matching_pages(github_id) : i <= j]]

\* POST /pages with the payload: a new page holding the payload's properties
created_db(properties) ==
    Append(db, [id |-> Len(db) + 1, props_null |-> FALSE, props |-> properties])

\* PATCH /pages/{page_id}: the payload's properties replace the page's
updated_db(page_id, properties) ==
    [i \in 1..Len(db) |->
        IF db[i].id = page_id /\ ~db[i].props_null
        THEN [db[i] EXCEPT !.props = Update(db[i].props, properties)]
        ELSE db[i]]

-----------------------------------------------------------------------------
(* the write calls and one iteration of sync_repo's loop *)

\* resp is the destination's answer: "ok" (200/201), "fail" (another status)
\* or "raise" (requests raises).  sent: an HTTP request was issued.
notion_create_page(properties, resp) ==
    IF DRY_RUN
    THEN [ret |-> TRUE, raised |-> FALSE, sent |-> FALSE, db |-> db]
    ELSE IF resp = "ok"
         THEN [ret |-> TRUE, raised |-> FALSE, sent |-> TRUE, db |-> created_db(properties)]
         ELSE [ret |-> FALSE, raised |-> resp = "raise", sent |-> TRUE, db |-> db]

\* slip: the update is sent in a dry run too
notion_update_page_always(page_id, properties, resp) ==
    IF resp = "ok"
    THEN [ret |-> TRUE, raised |-> FALSE, sent |-> TRUE, db |-> updated_db(page_id, properties)]
    ELSE [ret |-> FALSE, raised |-> resp = "raise", sent |-> TRUE, db |-> db]

notion_update_page(page_id, properties, resp) ==
    IF DRY_RUN
    THEN [ret |-> TRUE, raised |-> FALSE, sent |-> FALSE, db |-> db]
    ELSE IF resp = "ok"
         THEN [ret |-> TRUE, raised |-> FALSE, sent |-> TRUE, db |-> updated_db(page_id, properties)]
         ELSE [ret |-> FALSE, raised |-> resp = "raise", sent |-> TRUE, db |-> db]

(* What one iteration did: decision is "SKIP" (no id), "ERROR" (the lookup or
   build_properties raised, no decision was reached), "CREATE", "UPDATE" or
   "NOOP"; calls counts the calls of notion_create_page/notion_update_page;
   failed: an exception was caught or the write returned False; raised: an
   exception was caught. *)
Step(i, gh_id, decision, found, differ, payload, w, calls, failed) ==
    [info |-> [i |-> i, gh_id |-> gh_id, decision |-> decision, found |-> found,
               differ |-> differ, payload |-> payload, calls |-> calls,
               sent |-> w.sent, ret |-> w.ret, failed |-> failed,
               raised |-> (decision = "ERROR" \/ w.raised)],
     db |-> w.db]

NoWrite == [ret |-> FALSE, raised |-> FALSE, sent |-> FALSE, db |-> db]
NoStep  == [i |-> 0, gh_id |-> 0, decision |-> "NONE", found |-> FALSE,
            differ |-> FALSE, payload |-> EmptyProps, calls |-> 0,
            sent |-> FALSE, ret |-> FALSE, failed |-> FALSE, raised |-> FALSE]

\* notion_sync.py:321-346 once the lookup has answered `existing` and
\* build_properties `built`
sync_decide(i, gh_id, existing, built, lookup_resp, write_resp) ==
    IF gh_id = 0
    THEN Step(i, gh_id, "SKIP", FALSE, FALSE, EmptyProps, NoWrite, 0, FALSE)
    ELSE IF lookup_resp = "raise" \/ built.raised
    THEN Step(i, gh_id, "ERROR", FALSE, FALSE, EmptyProps, NoWrite, 0, TRUE)
    ELSE IF existing.found
    THEN IF properties_differ(existing.page, built.props)
         THEN LET w == notion_update_page(existing.page.id, update_payload_of(built.props), write_resp)
              IN  Step(i, gh_id, "UPDATE", TRUE, TRUE, update_payload_of(built.props), w, 1, ~w.ret)
         ELSE Step(i, gh_id, "NOOP", TRUE, FALSE, EmptyProps, NoWrite, 0, FALSE)
    ELSE LET w == notion_create_page(built.props, write_resp)
         IN  Step(i, gh_id, "CREATE", FALSE, FALSE, built.props, w, 1, ~w.ret)

\* notion_sync.py:319-350, for the record `it` at position i of the batch
sync_record(i, it, lookup_resp, write_resp) ==
    CHOOSE r \in {sync_decide(i, it.id, existing, built, lookup_resp, write_resp) :
                    existing \in {notion_query_by_github_id(it.id)},
                    built \in {build_properties(it)}} : TRUE

\* slip: a failed record is tried again
after_record_retry(i, step) == [pc |-> "run", idx |-> IF step.failed THEN i ELSE i + 1]

\* slip: an exception leaves the loop
after_record_abort(i, step) == [pc |-> IF step.raised THEN "idle" ELSE "run", idx |-> i + 1]

\* `continue` in the except clause: the loop goes on with the next record
after_record(i, step) == [pc |-> "run", idx |-> i + 1]

\* gh_get_issues: the listing without the records that carry "pull_request"
gh_get_issues(listing) == SelectSeq(listing, LAMBDA it : ~it.pull_request)

-----------------------------------------------------------------------------
(* the single-issue tool: main of issue_to_notion.py *)

\* issue_to_notion.py:233-252 once the lookup has answered `page` and
\* build_properties `built`
i2n_decide(gh_id, page, built, write_resp) ==
    IF built.raised
    THEN Step(1, gh_id, "ERROR", FALSE, FALSE, EmptyProps, NoWrite, 0, TRUE)
    ELSE IF page.found
    THEN IF i2n_properties_differ(page.page, built.props)
         THEN LET w == notion_update_page(page.page.id, i2n_update_payload_of(built.props), write_resp)
              IN  Step(1, gh_id, "UPDATE", TRUE, TRUE, i2n_update_payload_of(built.props), w, 1, ~w.ret)
         ELSE Step(1, gh_id, "NOOP", TRUE, FALSE, EmptyProps, NoWrite, 0, FALSE)
    ELSE LET w == notion_create_page(built.props, write_resp)
         IN  Step(1, gh_id, "CREATE", FALSE, FALSE, built.props, w, 1, ~w.ret)

\* issue_to_notion.py:230-252, for the issue of the event
i2n_main(issue, repo_full, write_resp) ==
    CHOOSE r \in {i2n_decide(issue.id, page, built, write_resp) :
                    page \in {notion_query_by_github_id(issue.id)},
                    built \in {i2n_build_properties(issue, repo_full)}} : TRUE

-----------------------------------------------------------------------------
(* the repository sweep: runs of notion_sync.py over a changing repository *)

MaxEdits == 2
MaxRuns  == 3

T_fix   == <<"F","i","x">>
T_fix2  == <<"F","i","x","2">>
L_a         == <<"a">>
L_type_bug  == <<"t","y","p","e",":","b","u","g">>
L_sprint_3  == <<"s","p","r","i","n","t",":","3">>
U_bob   == <<"b","o","b">>
U_eve   == <<"e","v","e">>
N_bob   == <<"U","1">>
R_url   == <<"h",":","/","/","g","/","o","/","r">>
R_short == <<"r">>
P_name  == <<"P","r","j">>

Issue(id, title, labels, state, assignee) ==
    [id |-> id, title |-> Str(title), body |-> Str(<<"b">>),
     labels |-> [k \in 1..Len(labels) |-> Str(labels[k])],
     assignee |-> assignee, milestone |-> NoMilestone, state |-> Str(state),
     created_at |-> Str(<<"1">>), updated_at |-> Str(<<"1">>),
     html_url |-> Str(<<"u">>), repository_url |-> Str(R_url),
     pull_request |-> FALSE]

\* the positions of the listing whose record changes between runs; the
\* listing also holds a second issue, a pull request and a record without an id
IssueSlots == {1}

InitialSource ==
    << Issue(101, T_fix, <<L_type_bug>>, S_closed, Null),
       [Issue(201, T_fix, <<>>, S_open, Null) EXCEPT !.pull_request = TRUE],
       Issue(0, T_fix, <<>>, S_open, Null),
       Issue(102, T_fix, <<>>, S_closed, Str(U_eve)) >>

SyncTitles     == {T_fix, T_fix2}
SyncLabelLists == {<<>>, <<L_type_bug>>, <<L_a>>}
SyncStates     == {S_open, S_closed}
SyncAssignees  == {Null, Str(U_bob)}

\* every adaptive property has the kind the tool is written for
SchemaTyped ==
    [p \in PropNames |->
        CASE p = PROP_TITLE -> "title"
          [] p = PROP_GH_ID -> "number"
          [] p \in {PROP_REPO, PROP_PROJECT, PROP_TYPE, PROP_PRIORITY,
                    PROP_SPRINT, PROP_STATUS} -> "select"
          [] p = PROP_LABELS -> "multi_select"
          [] p = PROP_ASSIGNEE -> "people"
          [] p = PROP_BODY -> "rich_text"
          [] p = PROP_ISSUE_URL -> "url"
          [] OTHER -> "date"]

\* a database whose adaptive properties are all plain text
SchemaText ==
    [p \in PropNames |->
        IF p \in {PROP_REPO, PROP_PROJECT, PROP_TYPE, PROP_PRIORITY, PROP_SPRINT,
                  PROP_STATUS, PROP_LABELS, PROP_ASSIGNEE}
        THEN "rich_text" ELSE SchemaTyped[p]]

SyncSchemas == {SchemaTyped, SchemaText}

PeopleMapFixed  == << <<U_bob, Str(N_bob)>> >>
ProjectMapFixed == << <<R_short, P_name>> >>


\* the importer is not part of the run
ImpIdle == [issues |-> <<>>, entries |-> <<>>, owner |-> Null, pc |-> "off",
            pos |-> 0, runs |-> 0, issued |-> 0]

\* no program start yet
NotStarted == [settings |-> FALSE, schema |-> "none", fetches |-> 0, go |-> FALSE]

\* slip: a failed schema fetch leaves an empty schema and the program goes on
startup_lenient(settings, fetch_resp) ==
    IF ~settings
    THEN [settings |-> FALSE, schema |-> "none", fetches |-> 0, go |-> FALSE]
    ELSE [settings |-> TRUE, schema |-> IF fetch_resp = "ok" THEN "ok" ELSE "failed",
          fetches |-> 1, go |-> TRUE]

(* notion_sync.py:45-96, the module level: sys.exit(1) when a required
   setting is missing; then DB_SCHEMA = get_db_schema(), whose exception
   (requests error, raise_for_status) ends the program; then main. *)
startup(settings, fetch_resp) ==
    IF ~settings
    THEN [settings |-> FALSE, schema |-> "none", fetches |-> 0, go |-> FALSE]
    ELSE IF fetch_resp = "raise"
    THEN [settings |-> TRUE, schema |-> "failed", fetches |-> 1, go |-> FALSE]
    ELSE [settings |-> TRUE, schema |-> "ok", fetches |-> 1, go |-> TRUE]

EvIdle == [stage |-> "off", has_issue |-> FALSE, issue |-> InitialSource[1],
           repo |-> <<>>, existing |-> "none", new_props |-> EmptyProps,
           i2n_props |-> EmptyProps, sweep |-> NoStep, main |-> NoStep,
           build_raised |-> FALSE, i2n_raised |-> FALSE]

Init ==
    /\ DB_SCHEMA \in SyncSchemas
    /\ NOTION_PEOPLE_MAP = PeopleMapFixed
    /\ PROJECT_MAP = ProjectMapFixed
    /\ DRY_RUN = TRUE
    /\ source = InitialSource
    /\ db = <<>>
    /\ pc = "idle"
    /\ batch = <<>>
    /\ idx = 0
    /\ last = NoStep
    /\ clean = TRUE
    /\ synced = FALSE
    /\ edits = 0
    /\ runs = 0
    /\ ev = EvIdle
    /\ boot = NotStarted
    /\ imp = ImpIdle

config == <<DB_SCHEMA, NOTION_PEOPLE_MAP, PROJECT_MAP>>

\* A change of the repository between two runs.  A run reads the listing
\* once, at its start (gh_get_issues), so a change made during a run has the
\* effect of the same change made right after it.
Edit(newSource) ==
    /\ pc = "idle"
    /\ edits < MaxEdits
    /\ newSource # source
    /\ source' = newSource
    /\ edits' = edits + 1
    /\ synced' = FALSE
    /\ UNCHANGED <<config, DRY_RUN, db, pc, batch, idx, last, clean, runs, ev, boot, imp>>

Retitle  == \E s \in IssueSlots, x \in SyncTitles :
                Edit([source EXCEPT ![s].title = Str(x)])
Relabel  == \E s \in IssueSlots, x \in SyncLabelLists :
                Edit([source EXCEPT ![s].labels = [k \in 1..Len(x) |-> Str(x[k])]])
SetState == \E s \in IssueSlots, x \in SyncStates :
                Edit([source EXCEPT ![s].state = Str(x)])
Reassign == \E s \in IssueSlots, x \in SyncAssignees :
                Edit([source EXCEPT ![s].assignee = x])

\* main -> sync_repo: the environment is read (DRY_RUN) and the listing fetched
StartRun ==
    /\ pc = "idle"
    /\ runs < MaxRuns
    /\ DRY_RUN' \in BOOLEAN
    /\ \E settings \in BOOLEAN, fetch_resp \in {"ok", "raise"} :
          /\ boot' = startup(settings, fetch_resp)
          /\ batch' = IF boot'.go THEN gh_get_issues(source) ELSE <<>>
          /\ pc' = IF boot'.go THEN "run" ELSE "idle"
    /\ idx' = 1
    /\ last' = NoStep
    /\ clean' = TRUE
    /\ runs' = runs + 1
    /\ UNCHANGED <<config, source, db, synced, edits, ev, imp>>

\* one iteration of the for loop
ProcessRecord ==
    /\ pc = "run"
    /\ idx <= Len(batch)
    /\ \E lookup_resp \in {"ok", "raise"}, write_resp \in {"ok", "fail", "raise"} :
          \E step \in {sync_record(idx, batch[idx], lookup_resp, write_resp)} :
          LET next == after_record(idx, step.info)
          IN  /\ last' = step.info
              /\ db' = step.db
              /\ clean' = (clean /\ ~step.info.failed)
              /\ pc' = next.pc
              /\ idx' = next.idx
    /\ UNCHANGED <<config, DRY_RUN, source, batch, synced, edits, runs, ev, boot, imp>>

\* the loop is over: sync_repo prints its counts and returns
FinishRun ==
    /\ pc = "run"
    /\ idx > Len(batch)
    /\ pc' = "idle"
    /\ synced' = (clean /\ ~DRY_RUN)
    /\ UNCHANGED <<config, DRY_RUN, source, db, batch, idx, last, clean, edits, runs, ev, boot, imp>>

Next ==
    \/ Retitle
    \/ Relabel
    \/ SetState
    \/ Reassign
    \/ StartRun
    \/ ProcessRecord
    \/ FinishRun

Spec == Init /\ [][Next]_vars

-----------------------------------------------------------------------------
(* one run of the single-issue tool on an event, a schema and a database
   drawn from bounded sets; the loop body of the sweep is applied to the same
   record and database *)

MaxLabels == 2

L_Sprint_5     == <<"S","p","r","i","n","t",":","5">>
L_sprint_blank == <<"s","p","r","i","n","t",":"," ">>
M_sprint_9     == <<"S","p","r","i","n","t"," ","9">>
R_full         == <<"o","/","r">>

EvLabels == {L_type_bug, L_sprint_3, L_Sprint_5, L_sprint_blank}

\* the lists of at most n labels of S; an issue carries a label once
RECURSIVE lists_upto(_, _)
lists_upto(S, n) ==
    IF n = 0 THEN {<<>>}
    ELSE lists_upto(S, n - 1)
         \cup {Append(l, x) : l \in {m \in lists_upto(S, n - 1) : Len(m) = n - 1},
                               x \in S}

no_repeat(l) == \A i, j \in 1..Len(l) : l[i] = l[j] => i = j

EvLabelLists == {l \in lists_upto(EvLabels, MaxLabels) : no_repeat(l)}

EvIssues ==
    {[Issue(101, T_fix, labels, state, assignee) EXCEPT !.milestone = milestone] :
        labels \in EvLabelLists,
        state \in {S_open, S_closed},
        assignee \in {Str(U_eve)},
        milestone \in {NoMilestone, Milestone(Str(M_sprint_9))}}

\* the "issue" of an event about a pull request (an issue_comment event on
\* a pull request carries the "pull_request" key)
EvPullRequests ==
    {[Issue(201, T_fix, <<>>, state, Str(U_eve)) EXCEPT !.pull_request = TRUE] :
        state \in {S_open, S_closed}}

Kinds == {"select", "multi_select", "people", "rich_text", "number", "url", "date"}

\* every property of the database has the same kind, or none is in the schema
Uniform(k) == [p \in PropNames |-> k]

EvSchemas == {SchemaTyped} \cup {Uniform(k) : k \in Kinds \cup {"absent"}}

(* What the database holds for the issue: nothing ("none"), or the page made
   from the issue as it is ("same"), as it was while open ("was_open") or
   under another title ("retitled"), or that page returned in a malformed
   shape. *)
ExistingKinds == {"none", "same", "was_open", "retitled",
                  "props_null", "notes_null", "status_select_null"}

EvPage(issue, kind) ==
    LET prev == CASE kind = "was_open" -> [issue EXCEPT !.state = Str(S_open)]
                  [] kind = "retitled" -> [issue EXCEPT !.title = Str(T_fix2)]
                  [] OTHER -> issue
        base == build_props(prev)
    IN  [id |-> 1,
         props_null |-> kind = "props_null",
         props |-> CASE kind = "notes_null" -> [base EXCEPT ![PROP_BODY] = NullProp]
                     [] kind = "status_select_null" -> [base EXCEPT ![PROP_STATUS] = SelectNull]
                     [] OTHER -> base]

EvInit ==
    /\ DB_SCHEMA \in EvSchemas
    /\ NOTION_PEOPLE_MAP = PeopleMapFixed
    /\ PROJECT_MAP = ProjectMapFixed
    /\ DRY_RUN = FALSE
    /\ \E issue \in EvIssues \cup EvPullRequests, kind \in ExistingKinds, has \in BOOLEAN :
          /\ has \/ (kind = "none" /\ issue = Issue(101, T_fix, <<>>, S_open, Str(U_eve)))
          /\ issue.pull_request => kind \in {"none", "retitled"}
          /\ ev = [EvIdle EXCEPT !.stage = "in", !.has_issue = has, !.issue = issue,
                                 !.repo = R_full, !.existing = kind]
          /\ db = IF kind = "none" THEN <<>> ELSE <<EvPage(issue, kind)>>
    /\ source = <<>>
    /\ pc = "idle"
    /\ batch = <<>>
    /\ idx = 0
    /\ last = NoStep
    /\ clean = TRUE
    /\ synced = FALSE
    /\ edits = 0
    /\ runs = 0
    /\ boot = NotStarted
    /\ imp = ImpIdle

sweepVars == <<source, pc, batch, idx, last, clean, synced, edits, runs, boot, imp>>

\* issue_to_notion.py:223-231: the event's issue, the lookup, build_properties
EvLookupBuild ==
    /\ ev.stage = "in"
    /\ \E lookup_resp \in {"ok", "raise"} :
          ev' = IF ~ev.has_issue THEN [ev EXCEPT !.stage = "done"]
                ELSE IF lookup_resp = "raise" \/ i2n_build_raises(ev.issue)
                THEN [ev EXCEPT !.stage = "fatal"]
                ELSE [ev EXCEPT !.stage = "built",
                                !.new_props = build_props(ev.issue),
                                !.i2n_props = i2n_build_props(ev.issue, ev.repo)]
    /\ UNCHANGED <<config, DRY_RUN, db, sweepVars>>

\* issue_to_notion.py:233-252: the decision and the write
EvDecide ==
    /\ ev.stage = "built"
    /\ \E write_resp \in {"ok", "fail", "raise"} :
          \E m \in {i2n_main(ev.issue, ev.repo, write_resp)} :
              /\ ev' = [ev EXCEPT !.stage = "done",
                                  !.main = m.info,
                                  !.sweep = sync_record(1, ev.issue, "ok", write_resp).info]
              /\ db' = m.db
    /\ UNCHANGED <<config, DRY_RUN, sweepVars>>

EvNext == EvLookupBuild \/ EvDecide

SpecEvent == EvInit /\ [][EvNext]_vars

-----------------------------------------------------------------------------
(* build_properties of both tools on one issue record, well-formed or not
   (SpecBuild) *)

L_Type_f     == <<"T","y","p","e",":","f">>
L_priority_h == <<"p","r","i","o","r","i","t","y",":","h">>

BuildLabels == {L_a, L_type_bug, L_Type_f, L_priority_h, L_sprint_3, L_sprint_blank}

BuildLabelLists == {l \in lists_upto(BuildLabels, MaxLabels) : no_repeat(l)}

(* What the record lacks: nothing ("ok"), or one field that is missing or
   null, or all of them ("bare": only the id is there). *)
BuildShapes == {"ok", "title_null", "title_missing", "body_null", "label_null",
                "assignee_null", "milestone_null", "milestone_title_null",
                "milestone_sprint", "created_null", "updated_missing",
                "state_missing", "url_missing", "repo_missing", "bare"}

BuildIssue(labels, assignee, shape) ==
    LET it == Issue(101, T_fix, labels, S_closed, assignee)
    IN  CASE shape = "title_null"     -> [it EXCEPT !.title = Null]
          [] shape = "title_missing"  -> [it EXCEPT !.title = Missing]
          [] shape = "body_null"      -> [it EXCEPT !.body = Null]
          [] shape = "label_null"     -> [it EXCEPT !.labels = Append(it.labels, Null)]
          [] shape = "assignee_null"  -> [it EXCEPT !.assignee = Null]
          [] shape = "milestone_null" -> [it EXCEPT !.milestone = NoMilestone]
          [] shape = "milestone_title_null" -> [it EXCEPT !.milestone = Milestone(Null)]
          [] shape = "milestone_sprint" -> [it EXCEPT !.milestone = Milestone(Str(M_sprint_9))]
          [] shape = "created_null"   -> [it EXCEPT !.created_at = Null]
          [] shape = "updated_missing" -> [it EXCEPT !.updated_at = Missing]
          [] shape = "state_missing"  -> [it EXCEPT !.state = Missing]
          [] shape = "url_missing"    -> [it EXCEPT !.html_url = Missing]
          [] shape = "repo_missing"   -> [it EXCEPT !.repository_url = Missing]
          [] shape = "bare" ->
                [it EXCEPT !.title = Missing, !.body = Missing, !.labels = <<>>,
                           !.assignee = Missing, !.state = Missing,
                           !.created_at = Missing, !.updated_at = Missing,
                           !.html_url = Missing, !.repository_url = Missing]
          [] OTHER -> it

\* free text for all but the assignee, who is a person
SchemaTextPeople == [SchemaText EXCEPT ![PROP_ASSIGNEE] = "people"]

BuildSchemas == {SchemaTyped, SchemaText, SchemaTextPeople, Uniform("absent")}

BuildInit ==
    /\ DB_SCHEMA \in BuildSchemas
    /\ NOTION_PEOPLE_MAP = PeopleMapFixed
    /\ PROJECT_MAP = ProjectMapFixed
    /\ DRY_RUN = TRUE
    /\ \E labels \in BuildLabelLists, assignee \in {Str(U_bob), Str(U_eve)},
          shape \in BuildShapes :
          ev = [EvIdle EXCEPT !.stage = "in", !.has_issue = TRUE,
                              !.issue = BuildIssue(labels, assignee, shape),
                              !.repo = R_full, !.existing = shape]
    /\ db = <<>>
    /\ source = <<>>
    /\ pc = "idle"
    /\ batch = <<>>
    /\ idx = 0
    /\ last = NoStep
    /\ clean = TRUE
    /\ synced = FALSE
    /\ edits = 0
    /\ runs = 0
    /\ boot = NotStarted
    /\ imp = ImpIdle

\* notion_sync.py:323 and issue_to_notion.py:231: new_props = build_properties(...)
BuildStep ==
    /\ ev.stage = "in"
    /\ \E b \in {build_properties(ev.issue)}, c \in {i2n_build_properties(ev.issue, ev.repo)} :
          ev' = [ev EXCEPT !.stage = "built",
                           !.new_props = b.props, !.build_raised = b.raised,
                           !.i2n_props = c.props, !.i2n_raised = c.raised]
    /\ UNCHANGED <<config, DRY_RUN, db, sweepVars>>

BuildNext == BuildStep

SpecBuild == BuildInit /\ [][BuildNext]_vars

-----------------------------------------------------------------------------
(* github_issue_importer.py (SpecImport) *)

(* imp.issues: the issues of the target repository, [title, state];
   imp.entries: the "issues" of the input file, [repo, title], JSON fields;
   imp.owner: the OWNER setting; imp.pos: the position of main's loop;
   imp.issued: the `gh issue create` commands issued in the current run. *)

T_fix_sp == <<" ","F","i","x">>
O_owner  == <<"o">>

\* github_issue_importer.py:35-41; raised: the ValueError
build_repo_full(repo_field, default_owner) ==
    IF contains(strip(repo_field), "/")
    THEN [raised |-> FALSE, repo |-> strip(repo_field)]
    ELSE IF ~Truthy(default_owner)
    THEN [raised |-> TRUE, repo |-> <<>>]
    ELSE [raised |-> FALSE, repo |-> default_owner.s \o S_slash \o strip(repo_field)]

(* `gh issue list --repo R --search T --json title`: code 0 and the titles
   of the open issues of the repository (gh lists open issues unless --state
   says otherwise; the narrowing by the search words is left out, which
   can only add titles), or a non-zero exit code, or output that is not JSON. *)
gh_issue_list(issues, list_resp) ==
    [code |-> IF list_resp = "fail" THEN 1 ELSE 0,
     json |-> list_resp # "garbled",
     titles |-> IF list_resp = "ok"
                THEN SelectSeq(issues, LAMBDA it : it.state = S_open)
                ELSE <<>>]

\* github_issue_importer.py:152-163
issue_exists(issues, title, list_resp) ==
    LET r == gh_issue_list(issues, list_resp)
    IN  IF r.code # 0 THEN FALSE
        ELSE IF ~r.json THEN FALSE
        ELSE \E i \in 1..Len(r.titles) : strip(r.titles[i].title) = strip(title)

\* github_issue_importer.py:166-194: the command is issued; it may fail
create_issue(issues, issue, create_resp) ==
    IF create_resp = "ok"
    THEN Append(issues, [title |-> issue.title.s, state |-> S_open])
    ELSE issues

\* github_issue_importer.py:215-232: one iteration of main's loop
import_entry(issues, issue, default_owner, list_resp, create_resp) ==
    IF ~Truthy(issue.repo) THEN [issues |-> issues, issued |-> 0]
    ELSE IF build_repo_full(issue.repo.s, default_owner).raised
    THEN [issues |-> issues, issued |-> 0]
    ELSE IF issue_exists(issues, issue.title.s, list_resp)
    THEN [issues |-> issues, issued |-> 0]
    ELSE [issues |-> create_issue(issues, issue, create_resp), issued |-> 1]

Entry(repo, title) == [repo |-> repo, title |-> Str(title)]

\* the input file: two entries of one title (but for the blanks), one entry
\* without owner, one without repo
ImportInput ==
    << Entry(Str(R_full), T_fix), Entry(Str(R_short), T_fix2),
       Entry(Null, T_fix2), Entry(Str(R_full), T_fix_sp) >>

ImportRepos ==
    { <<>>,
      << [title |-> T_fix, state |-> S_open] >>,
      << [title |-> T_fix, state |-> S_closed] >>,
      << [title |-> T_fix_sp, state |-> S_open], [title |-> T_fix2, state |-> S_closed] >> }

notImp == <<DB_SCHEMA, NOTION_PEOPLE_MAP, PROJECT_MAP, DRY_RUN, source, db, pc,
            batch, idx, last, clean, synced, edits, runs, ev, boot>>

ImpInit ==
    /\ DB_SCHEMA = SchemaTyped
    /\ NOTION_PEOPLE_MAP = PeopleMapFixed
    /\ PROJECT_MAP = ProjectMapFixed
    /\ DRY_RUN = TRUE
    /\ source = <<>>
    /\ db = <<>>
    /\ pc = "idle"
    /\ batch = <<>>
    /\ idx = 0
    /\ last = NoStep
    /\ clean = TRUE
    /\ synced = FALSE
    /\ edits = 0
    /\ runs = 0
    /\ ev = EvIdle
    /\ boot = NotStarted
    /\ \E issues \in ImportRepos :
          imp = [ImpIdle EXCEPT !.issues = issues, !.entries = ImportInput, !.pc = "idle"]

\* github_issue_importer.py:199-213: the program starts on the input file
ImpStart ==
    /\ imp.pc = "idle"
    /\ imp.runs < MaxRuns
    /\ \E owner \in {Null, Str(O_owner)} :
          imp' = [imp EXCEPT !.pc = "run", !.owner = owner, !.pos = 1,
                             !.runs = @ + 1, !.issued = 0]
    /\ UNCHANGED notImp

ImpEntry ==
    /\ imp.pc = "run"
    /\ imp.pos <= Len(imp.entries)
    /\ \E list_resp \in {"ok", "fail", "garbled"}, create_resp \in {"ok", "fail"} :
          \E r \in {import_entry(imp.issues, imp.entries[imp.pos], imp.owner,
                                 list_resp, create_resp)} :
              imp' = [imp EXCEPT !.issues = r.issues, !.issued = @ + r.issued,
                                 !.pos = @ + 1]
    /\ UNCHANGED notImp

ImpEnd ==
    /\ imp.pc = "run"
    /\ imp.pos > Len(imp.entries)
    /\ imp' = [imp EXCEPT !.pc = "idle"]
    /\ UNCHANGED notImp

ImpNext == ImpStart \/ ImpEntry \/ ImpEnd

SpecImport == ImpInit /\ [][ImpNext]_vars

-----------------------------------------------------------------------------
(* properties of the sweep (Spec) *)

\* the text a property value carries, whatever its shape
value_text(x) ==
    IF x.kind \in {"select", "rich_text", "title", "date"} THEN x.s
    ELSE IF x.kind = "multi_select" /\ Len(x.l) = 1 THEN x.l[1]
    ELSE <<>>

\* the last iteration reached one of the three decisions
Decided == last.i > 0 /\ last.decision \in {"CREATE", "UPDATE", "NOOP"}

\* the page of the database that holds the record of the last iteration
PagesOfLast == {k \in 1..Len(db) : db[k].props[PROP_GH_ID].n = last.gh_id}

(* C1: idempotence.  In a run that follows a real run without any failure,
   the source unchanged in between, every record that is decided is decided
   NOOP and no write call is made. *)
C1_Idempotence ==
    (pc = "run" /\ synced /\ Decided) => (last.decision = "NOOP" /\ last.calls = 0)


(* C2: status monotonicity.  A page whose Status is "Done" keeps the Status
   "Done" in every step of every run, whatever the source has become. *)
StatusDone(page) == value_text(page.props[PROP_STATUS]) = S_Done

C2_StatusMonotone ==
    [][\A k \in 1..Len(db) : StatusDone(db[k]) => StatusDone(db'[k])]_vars

\* an update was applied to a page that is "Done" while its issue is open again
C2_Witness ==
    /\ last.decision = "UPDATE" /\ last.sent /\ last.ret
    /\ batch[last.i].state = Str(S_open)
    /\ \E k \in PagesOfLast : StatusDone(db[k])

\* the iteration that ProcessRecord is about to make
InLoop == pc = "run" /\ idx <= Len(batch)

(* C3 as stated: every record with an id reaches one of CREATE, UPDATE, NOOP. *)
C3_EveryRecordDecided == (last.i > 0 /\ last.gh_id # 0) => Decided

(* C3, amended: a record without an id is skipped; a record whose lookup or
   build_properties raises reaches no decision and makes no write call; any
   other record reaches exactly one of CREATE (no page found, the full
   payload), UPDATE (page found, properties_differ) and NOOP (page found, no
   difference, no write call).  An iteration makes at most one write call and
   the loop then moves to the next record, also after a failed write. *)
C3_Decision ==
    [][InLoop =>
        LET it      == batch[idx]
            existing == notion_query_by_github_id(it.id)
            built   == build_properties(it)
            d       == last'.decision
        IN  /\ last'.i = idx /\ idx' = idx + 1 /\ pc' = "run"
            /\ last'.calls <= 1
            /\ d \in {"SKIP", "ERROR", "CREATE", "UPDATE", "NOOP"}
            /\ (d = "SKIP") <=> (it.id = 0)
            /\ (d = "ERROR") => (last'.raised /\ last'.calls = 0 /\ db' = db)
            /\ built.raised => d \in {"SKIP", "ERROR"}
            /\ (d = "CREATE") => (~existing.found /\ last'.payload = built.props /\ last'.calls = 1)
            /\ (d = "UPDATE") => (existing.found /\ properties_differ(existing.page, built.props)
                                  /\ last'.calls = 1)
            /\ (d = "NOOP") => (existing.found /\ ~properties_differ(existing.page, built.props)
                                /\ last'.calls = 0 /\ ~last'.sent /\ db' = db)
            /\ (d \notin {"SKIP", "ERROR"} /\ ~existing.found) => d = "CREATE"
    ]_vars

\* a write failed and the loop went on to the next record
C3_Witness ==
    /\ pc = "run" /\ last.decision = "UPDATE" /\ last.failed /\ idx = last.i + 1

\* what an update never carries
FrozenProps == {PROP_GH_ID, PROP_REPO, PROP_ASSIGNEE, PROP_ISSUE_URL, PROP_CREATED, PROP_UPDATED}

\* the payload holds only what an update may send, in the schema's kinds
RestrictedPayload(payload) ==
    /\ \A p \in FrozenProps : payload[p] = Absent
    /\ \A p \in SelectProps : payload[p] # Absent => DB_SCHEMA[p] = "select"
    /\ payload[PROP_LABELS] # Absent => DB_SCHEMA[PROP_LABELS] = "multi_select"
    /\ payload[PROP_STATUS] \in {Absent, Select(S_Done)}

FrozenUnchanged ==
    \A k \in 1..Len(db) : \A p \in FrozenProps : db'[k].props[p] = db[k].props[p]

(* C5 as stated: an update sends only the restricted subset, Status only
   when the page is not yet "Done", and leaves the other properties of the
   pages unchanged. *)
C5_StatusOnlyOnTransition ==
    [][(InLoop /\ last'.decision = "UPDATE") =>
        /\ RestrictedPayload(last'.payload)
        /\ FrozenUnchanged
        /\ last'.payload[PROP_STATUS] # Absent =>
              ~StatusDone(notion_query_by_github_id(batch[idx].id).page)
    ]_vars

(* C5, amended: an update sends only Title, Notes, Project/Type/Priority/
   Sprint (each only when its schema kind is select), Labels (only when
   multi_select) and Status, which is sent, as "Done", whenever the source
   issue is closed and Status is a select (also when the page is "Done"
   already); GitHub ID, Repo, Assigned To, GitHub Link, Created At and
   Updated At are never sent and stay as they are in every page. *)
C5_UpdateSubset ==
    [][(InLoop /\ last'.decision = "UPDATE") =>
        /\ RestrictedPayload(last'.payload)
        /\ FrozenUnchanged
        /\ last'.payload[PROP_STATUS] # Absent <=>
              (batch[idx].state = Str(S_closed) /\ DB_SCHEMA[PROP_STATUS] = "select")
    ]_vars

\* an update was applied and the page keeps an assignee the source no longer has
C5_Witness ==
    /\ last.decision = "UPDATE" /\ last.sent /\ last.ret
    /\ \E k \in PagesOfLast :
          db[k].props[PROP_ASSIGNEE] # build_props(batch[last.i])[PROP_ASSIGNEE]

(* C7: partial-failure isolation.  A run ends only after the loop has gone
   through every record of the batch, in order, whatever failed on the way. *)
C7_Isolation ==
    /\ pc = "run" => (last.i = idx - 1 /\ idx <= Len(batch) + 1)
    /\ (pc = "idle" /\ runs > 0) => (idx = Len(batch) + 1 /\ last.i = Len(batch))

\* a run that ended with the last record created after an earlier exception
C7_Witness ==
    /\ pc = "idle" /\ runs > 0 /\ ~clean
    /\ last.gh_id = 102 /\ last.decision = "CREATE" /\ last.ret /\ ~last.failed

(* C8: simulate-only mode.  In a run with DRY_RUN set, every iteration
   reaches the decision and the payload of the code, no request is sent and
   the database does not change. *)
C8_DryRun ==
    [][(pc = "run" /\ DRY_RUN) =>
        /\ db' = db
        /\ ~last'.sent
        /\ InLoop =>
            LET it       == batch[idx]
                existing == notion_query_by_github_id(it.id)
                built    == build_properties(it)
            IN  \/ last'.decision \in {"SKIP", "ERROR"}
                \/ ~existing.found /\ last'.decision = "CREATE" /\ last'.payload = built.props
                \/ /\ existing.found /\ properties_differ(existing.page, built.props)
                   /\ last'.decision = "UPDATE"
                   /\ last'.payload = update_payload_of(built.props)
                \/ /\ existing.found /\ ~properties_differ(existing.page, built.props)
                   /\ last'.decision = "NOOP"
    ]_vars

\* a dry run decided an update, with its payload, and sent nothing
C8_Witness ==
    /\ pc = "run" /\ DRY_RUN /\ last.decision = "UPDATE" /\ ~last.sent
    /\ last.payload[PROP_TITLE] # Absent

-----------------------------------------------------------------------------
(* properties of one issue under both tools (SpecEvent) *)

EvDone == ev.stage = "done" /\ ev.has_issue

\* the page the lookup returned for the issue of the event
EvExisting == EvPage(ev.issue, ev.existing)

(* C4: a closed issue whose page has a Status other than "Done" is decided
   UPDATE, by both tools, and the update payload carries Status = "Done". *)
C4_ClosedBecomesDone ==
    (/\ EvDone
     /\ ev.issue.state = Str(S_closed)
     /\ ev.existing = "was_open"
     /\ value_text(EvExisting.props[PROP_STATUS]) = S_Backlog)
    => /\ ev.sweep.decision = "UPDATE"
       /\ ev.sweep.payload[PROP_STATUS] = Select(S_Done)
       /\ ev.main.decision = "UPDATE"
       /\ ev.main.payload[PROP_STATUS] = Select(S_Done)

\* the properties that select_payload encodes
AdaptiveProps == {PROP_REPO, PROP_PROJECT, PROP_STATUS, PROP_TYPE, PROP_PRIORITY, PROP_SPRINT}

(* C6 as stated: every value of the built payload has the shape of the kind
   the schema records for its property. *)
C6_ShapeIsSchemaKind ==
    ev.stage = "built" =>
        \A p \in PropNames \ {PROP_TITLE} :
            (ev.new_props[p] # Absent /\ DB_SCHEMA[p] # "absent")
                => ev.new_props[p].kind = DB_SCHEMA[p]

\* the shape build_properties gives to a property under the schema
ShapeOf(p) ==
    CASE p \in AdaptiveProps ->
            IF DB_SCHEMA[p] \in {"select", "multi_select"} THEN DB_SCHEMA[p] ELSE "rich_text"
      [] p = PROP_LABELS    -> "multi_select"
      [] p = PROP_ASSIGNEE  -> IF DB_SCHEMA[p] = "people" THEN "people" ELSE "rich_text"
      [] p = PROP_TITLE     -> "title"
      [] p = PROP_GH_ID     -> "number"
      [] p = PROP_BODY      -> "rich_text"
      [] p = PROP_ISSUE_URL -> "url"
      [] OTHER              -> "date"

ShapedBySchema(props) ==
    /\ \A p \in PropNames : props[p] # Absent => props[p].kind = ShapeOf(p)
    /\ props[PROP_LABELS] # Absent => DB_SCHEMA[PROP_LABELS] = "multi_select"

(* C6, amended: Repo, Project, Status, Type, Priority and Sprint have the
   shape of the schema kind when that kind is select or multi_select and are
   free text under every other kind or when absent from the schema; Labels
   are sent, as multi_select, only when the schema kind is multi_select;
   Assigned To is people when the schema kind is people and free text
   otherwise; Title, GitHub ID, Notes, GitHub Link, Created At and Updated At
   are sent as title, number, free text, url and date whatever the schema
   records for them. *)
C6_PayloadShape ==
    ev.stage = "built" => (ShapedBySchema(ev.new_props) /\ ShapedBySchema(ev.i2n_props))

\* a payload built for a schema whose Repo is a number: Repo is free text
C6_Witness ==
    /\ ev.stage = "built" /\ DB_SCHEMA[PROP_REPO] = "number"
    /\ ev.new_props[PROP_REPO].kind = "rich_text"
    /\ ev.new_props[PROP_GH_ID].kind = "number"

\* a page in a shape that makes the comparison raise
Malformed(page) ==
    \/ page.props_null
    \/ page.props[PROP_BODY] = NullProp
    \/ page.props[PROP_STATUS] = SelectNull

(* C9: when the comparison of the existing page with the new payload raises,
   because the page is malformed, both tools decide UPDATE and make the one
   update call. *)
C9_ErrorMeansDiffer ==
    (EvDone /\ ev.existing # "none" /\ Malformed(EvExisting))
    => /\ ev.sweep.decision = "UPDATE" /\ ev.sweep.calls = 1
       /\ ev.main.decision = "UPDATE" /\ ev.main.calls = 1

\* the page differs from the payload in nothing but its null Notes
C9_Witness ==
    /\ EvDone /\ ev.existing = "notes_null"
    /\ ev.sweep.decision = "UPDATE" /\ ev.sweep.sent
    /\ ev.main.decision = "UPDATE"
    /\ ev.sweep.payload[PROP_TITLE] = EvExisting.props[PROP_TITLE]

IsSprintLabel(l) == startswith(lower(l), S_sprint_)
SprintLabels(issue) == SelectSeq(label_names(issue), IsSprintLabel)
ValuedSprintLabel(l) == IsSprintLabel(l) /\ sprint_label_value(l) # <<>>
ValuedSprintLabels(issue) == SelectSeq(label_names(issue), ValuedSprintLabel)
S_Sprint_3 == <<"S","p","r","i","n","t"," ","3">>
HasLabel(issue, l) == \E i \in 1..Len(issue.labels) : issue.labels[i] = Str(l)

(* C10 as stated: whenever "sprint:3" is among the labels, the Sprint value
   of the built payload is "Sprint 3". *)
C10_AnySprint3 ==
    (ev.stage = "built" /\ HasLabel(ev.issue, L_sprint_3))
    => value_text(ev.new_props[PROP_SPRINT]) = S_Sprint_3

(* C10, amended: the Sprint value is "Sprint 3", whatever the milestone,
   when "sprint:3" is the first label that starts with "sprint:" in any
   letter case (issue_to_notion.py), or the first such label whose value is
   not blank (notion_sync.py); an earlier such label decides instead. *)
C10_FirstSprintLabel ==
    ev.stage = "built" =>
        /\ (ValuedSprintLabels(ev.issue) # <<>> /\ Head(ValuedSprintLabels(ev.issue)) = L_sprint_3)
              => value_text(ev.new_props[PROP_SPRINT]) = S_Sprint_3
        /\ (SprintLabels(ev.issue) # <<>> /\ Head(SprintLabels(ev.issue)) = L_sprint_3)
              => value_text(ev.i2n_props[PROP_SPRINT]) = S_Sprint_3
        /\ (ValuedSprintLabels(ev.issue) # <<>> /\ Head(ValuedSprintLabels(ev.issue)) # L_sprint_3)
              => value_text(ev.new_props[PROP_SPRINT]) # S_Sprint_3

\* "sprint:3" decided although a milestone and a later sprint label are there
C10_Witness ==
    /\ ev.stage = "built"
    /\ label_names(ev.issue) = <<L_sprint_3, L_Sprint_5>>
    /\ ev.issue.milestone.present
    /\ value_text(ev.new_props[PROP_SPRINT]) = S_Sprint_3
    /\ value_text(ev.i2n_props[PROP_SPRINT]) = S_Sprint_3

-----------------------------------------------------------------------------
(* properties of build_properties (SpecBuild) *)

\* build_properties returned a payload, in both tools
Built == ev.stage = "built" /\ ~ev.build_raised /\ ~ev.i2n_raised

S_type_colon     == S_type \o <<":">>
S_priority_colon == S_priority \o <<":">>

\* the labels written "<key>:X", and the labels whose key is <key> in any case
ExactKeyLabels(issue, keyc) ==
    SelectSeq(label_names(issue), LAMBDA l : startswith(l, keyc))
KeyLabels(issue, keyc) ==
    SelectSeq(label_names(issue), LAMBDA l : startswith(lower(l), keyc))
LabelValue(l) == split1(l, ":")[2]

(* C11 as stated: with at most one label "type:X", Type is X when its kind
   is select, and Type is omitted when no label is written "type:..."
   (likewise Priority). *)
KeyFieldExact(props, issue, keyc, prop) ==
    /\ (Len(ExactKeyLabels(issue, keyc)) = 1 /\ DB_SCHEMA[prop] = "select")
          => props[prop] = Select(LabelValue(ExactKeyLabels(issue, keyc)[1]))
    /\ Len(ExactKeyLabels(issue, keyc)) = 0 => props[prop] = Absent

C11_ExactKey ==
    Built => /\ KeyFieldExact(ev.new_props, ev.issue, S_type_colon, PROP_TYPE)
             /\ KeyFieldExact(ev.new_props, ev.issue, S_priority_colon, PROP_PRIORITY)

KeyField(props, issue, keyc, prop) ==
    /\ (Len(KeyLabels(issue, keyc)) = 1 /\ DB_SCHEMA[prop] = "select")
          => props[prop] = Select(LabelValue(KeyLabels(issue, keyc)[1]))
    /\ Len(KeyLabels(issue, keyc)) = 0 => props[prop] = Absent

(* C11, amended: the key of a label is compared in lower case.  With at most
   one label whose text before the first colon is "type" in any letter case,
   Type is the text after that colon when its kind is select, and Type is
   omitted when there is no such label; likewise Priority; in both tools. *)
C11_TypePriority ==
    Built => \A props \in {ev.new_props, ev.i2n_props} :
                /\ KeyField(props, ev.issue, S_type_colon, PROP_TYPE)
                /\ KeyField(props, ev.issue, S_priority_colon, PROP_PRIORITY)

\* a label "Type:f" gave Type = f, and Priority is omitted
C11_Witness ==
    /\ Built /\ DB_SCHEMA[PROP_TYPE] = "select"
    /\ label_names(ev.issue) = <<L_a, L_Type_f>>
    /\ ev.new_props[PROP_TYPE] = Select(<<"f">>)
    /\ ev.new_props[PROP_PRIORITY] = Absent

endswith(s, suffix) ==
    Len(s) >= Len(suffix) /\ SubSeq(s, Len(s) - Len(suffix) + 1, Len(s)) = suffix

\* body = issue.get("body") or ""
BodyOf(issue) == IF Truthy(issue.body) THEN issue.body.s ELSE <<>>
LabelsLine(issue) == S_Labels_ \o join(label_names(issue), S_comma_)
NotesOf(props) == props[PROP_BODY].s

Degrades == label_names(ev.issue) # <<>> /\ DB_SCHEMA[PROP_LABELS] # "multi_select"

(* C12 as stated: with labels and a Labels kind other than multi_select, the
   Notes end with the line "Labels: ..." and begin with the body. *)
C12_EndsWithLabels ==
    (Built /\ Degrades) =>
        /\ endswith(NotesOf(ev.new_props), LabelsLine(ev.issue))
        /\ startswith(NotesOf(ev.new_props), BodyOf(ev.issue))

\* the assignee line is appended: people kind, an assignee, not in the people map
AssigneeLine(issue) ==
    IF DB_SCHEMA[PROP_ASSIGNEE] = "people" /\ Truthy(issue.assignee)
       /\ ~people_has(issue.assignee.s)
    THEN S_Assignee_ \o issue.assignee.s ELSE <<>>

(* C12, amended: with labels and a Labels kind other than multi_select, the
   Notes are the body, then "\n\nLabels: " and the labels joined with ", ",
   then, when the kind of Assigned To is people and the assignee is not in
   the people map, "\n\nGitHub assignee: " and the login; so the Notes end
   with the Labels line exactly when no assignee line follows it.  In both
   tools. *)
C12_LabelDegradation ==
    (Built /\ Degrades) =>
        \A props \in {ev.new_props, ev.i2n_props} :
            /\ props[PROP_BODY].kind = "rich_text"
            /\ NotesOf(props) = BodyOf(ev.issue) \o LabelsLine(ev.issue) \o AssigneeLine(ev.issue)
            /\ props[PROP_LABELS] = Absent

\* the body, the Labels line and the assignee line, in this order
C12_Witness ==
    /\ Built /\ Degrades /\ DB_SCHEMA[PROP_ASSIGNEE] = "people"
    /\ label_names(ev.issue) = <<L_a, L_type_bug>>
    /\ ev.issue.assignee = Str(U_eve)
    /\ BodyOf(ev.issue) # <<>>
    /\ endswith(NotesOf(ev.new_props), S_Assignee_ \o U_eve)
    /\ ~endswith(NotesOf(ev.new_props), LabelsLine(ev.issue))

(* C13: empty-label round trip.  With Labels of kind multi_select and an
   issue without labels, the payload of both tools holds Labels as an explicit
   empty multi-select list, the names read from it as properties_differ reads
   them are the empty set, and an update carries the empty list too. *)
C13_EmptyLabelsRoundTrip ==
    (Built /\ DB_SCHEMA[PROP_LABELS] = "multi_select" /\ label_names(ev.issue) = <<>>) =>
        \A props \in {ev.new_props, ev.i2n_props} :
            /\ props[PROP_LABELS] # Absent
            /\ props[PROP_LABELS] = MultiSel(<<>>)
            /\ multi_select_names(props[PROP_LABELS]) = {}
            /\ update_payload_of(props)[PROP_LABELS] = MultiSel(<<>>)

\* a record without a "labels" key, under a multi_select Labels property
C13_Witness ==
    /\ Built /\ DB_SCHEMA[PROP_LABELS] = "multi_select" /\ ev.existing = "bare"
    /\ ev.issue.labels = <<>>
    /\ ev.new_props[PROP_LABELS].kind = "multi_select"
    /\ ev.new_props[PROP_LABELS].l = <<>>

(* C14: build_properties returns a payload, in both tools, for every record,
   whichever of its fields is missing or null; Created At and Updated At are
   in the payload only when the record has them. *)
C14_NeverRaises ==
    ev.stage = "built" =>
        /\ ~ev.build_raised /\ ~ev.i2n_raised
        /\ \A props \in {ev.new_props, ev.i2n_props} :
              /\ props[PROP_CREATED] # Absent => Truthy(ev.issue.created_at)
              /\ props[PROP_UPDATED] # Absent => Truthy(ev.issue.updated_at)

-----------------------------------------------------------------------------
(* properties of the program start (Spec) *)

(* C15: ordering of the run.  The loop over the records runs only after the
   settings were found and the one schema fetch of the program succeeded,
   and nothing fetches the schema again during the run; a program start with
   a missing setting (no fetch at all) or a failed fetch processes no
   record: no lookup, no write, the database as it was. *)
C15_SchemaFirst ==
    [][/\ pc' = "run" => (boot'.settings /\ boot'.schema = "ok" /\ boot'.fetches = 1)
       /\ pc = "run" => boot' = boot
       /\ (runs' # runs /\ (~boot'.settings \/ boot'.schema # "ok")) =>
             /\ pc' = "idle" /\ batch' = <<>> /\ last' = NoStep /\ db' = db
             /\ boot'.fetches = (IF boot'.settings THEN 1 ELSE 0)
    ]_vars

\* the program started again after a real run, and its schema fetch failed
C15_Witness ==
    /\ pc = "idle" /\ runs >= 2 /\ Len(db) > 0
    /\ boot.settings /\ boot.schema = "failed" /\ boot.fetches = 1
    /\ last = NoStep

-----------------------------------------------------------------------------
(* pull requests *)

\* the sweep: no pull request in a batch, in a step or in the database
SweepSkipsPullRequests ==
    /\ \A i \in 1..Len(batch) : ~batch[i].pull_request
    /\ last.gh_id # 201
    /\ \A k \in 1..Len(db) : db[k].props[PROP_GH_ID].n # 201

(* C16: a record that carries a pull_request marker is never looked up,
   created or updated; here for the single-issue tool, whose record is the
   "issue" of the event. *)
C16_NoPullRequest ==
    (ev.has_issue /\ ev.issue.pull_request) =>
        /\ ev.stage \notin {"built", "fatal"}
        /\ ev.stage = "done" => (ev.main.calls = 0 /\ ~ev.main.found)
        /\ \A k \in 1..Len(db) : db[k].props[PROP_GH_ID].n = 201 => ev.existing # "none"

-----------------------------------------------------------------------------
(* properties of the importer (SpecImport) *)

\* the repository holds an issue with the title of the entry, blanks trimmed
InRepo(issues, title) ==
    \E i \in 1..Len(issues) : strip(issues[i].title) = strip(title)

(* C17: `gh issue create` is never issued for an entry whose title, trimmed,
   is the title of an issue that the target repository already has. *)
C17_NoDuplicateCreate ==
    [][(imp.pc = "run" /\ imp'.issued = imp.issued + 1) =>
          ~InRepo(imp.issues, imp.entries[imp.pos].title.s)]_vars

-----------------------------------------------------------------------------
(* the two tools side by side (SpecBuild) *)

\* the pages the comparison may meet for the issue
PagesFor(issue) == {EvPage(issue, k) : k \in ExistingKinds \ {"none"}}

\* both tools were given the same repository name
SameRepo == short_of(repo_full_of(ev.issue)) = short_of(ev.repo)

\* on one payload, the comparisons and the update payloads of the tools agree
DiffLogicAgrees ==
    (Built /\ SameRepo) =>
        \A props \in {ev.new_props, ev.i2n_props} :
            /\ update_payload_of(props) = i2n_update_payload_of(props)
            /\ \A page \in PagesFor(ev.issue) :
                  properties_differ(page, props) = i2n_properties_differ(page, props)

(* C18: for every issue the two tools build the same payload, or both
   raise; their comparisons give the same result on every page and their
   update payloads are the same. *)
C18_VariantsAgree ==
    (ev.stage = "built" /\ SameRepo) =>
        /\ ev.build_raised = ev.i2n_raised
        /\ ev.new_props = ev.i2n_props
        /\ \A page \in PagesFor(ev.issue) :
              ~ev.build_raised =>
                 properties_differ(page, ev.new_props) = i2n_properties_differ(page, ev.i2n_props)
        /\ update_payload_of(ev.new_props) = i2n_update_payload_of(ev.i2n_props)

-----------------------------------------------------------------------------
(* what an update repairs (Spec) *)

(* C19: update coverage of the diff.  When an update is decided, every
   compared select property on which the page differs from the new payload
   is in the update payload, and once the update is applied the page no
   longer differs from the new payload. *)
C19_UpdateCoversDiff ==
    [][(InLoop /\ last'.decision = "UPDATE" /\ last'.sent /\ last'.ret) =>
        LET it       == batch[idx]
            existing == notion_query_by_github_id(it.id).page
            new      == build_props(it)
        IN  /\ \A p \in SelectProps :
                  (DB_SCHEMA[p] = "select" /\ select_differs(existing.props, new, p))
                      => last'.payload[p] # Absent
            /\ \A k \in 1..Len(db') :
                  db'[k].props[PROP_GH_ID].n = it.id => ~properties_differ(db'[k], new)
    ]_vars

====
